---------------------------- MODULE Spec2Model ----------------------------
(***************************************************************************)
(* A model of the used-guitar price pipeline: the scrape stage             *)
(* (src/scrape.py) and the transform stage (src/transform.py).             *)
(*                                                                         *)
(* Python strings are modelled as sequences of one-character strings, so   *)
(* that substring tests, regular-expression searches, slicing and number   *)
(* parsing are computed character by character as the code computes them.  *)
(*                                                                         *)
(* Three specifications share the module:                                  *)
(*   SpecTitle      the title parser and its normaliser applied to one row *)
(*   SpecTransform  transform.main on a whole table of Sale Records        *)
(*   SpecScrape     scrape.main: collect links, persist, visit, persist    *)
(***************************************************************************)
EXTENDS Integers, Sequences, FiniteSets

VARIABLES
    row,                    \* SpecTitle: the pandas row handed to the parsers
    tpc,                    \* SpecTitle: position in the sequence of parser calls
    loaded_dict,            \* SpecTransform: the unpickled Sale Records
    df,                     \* SpecTransform: main's dataframe, index label -> row
    df_dummy,               \* SpecTransform: the feature table returned by df_format
    df_pkl,                 \* SpecTransform: data/df.pkl
    df_dummy_pkl,           \* SpecTransform: data/df_dummy.pkl
    mpc,                    \* SpecTransform: position in transform.main
    electric_guitar_links,  \* SpecScrape: the list returned by get_site_links
    links_pkl,              \* SpecScrape: data/electric_guitar_links.pkl
    electric_guitar_dict,   \* SpecScrape: the five columns built by get_data
    dict_pkl,               \* SpecScrape: data/electric_guitar_dict.pkl
    k,                      \* SpecScrape: index of the next link of the for loop
    visited,                \* SpecScrape: the driver.get(link) calls made, in order
    spc                     \* SpecScrape: position in scrape.main

titleVars == <<row, tpc>>
transformVars == <<loaded_dict, df, df_dummy, df_pkl, df_dummy_pkl, mpc>>
scrapeVars ==
    <<electric_guitar_links, links_pkl, electric_guitar_dict, dict_pkl, k,
      visited, spc>>
vars == <<titleVars, transformVars, scrapeVars>>

-----------------------------------------------------------------------------
(* Bounds of the model.                                                    *)

\* longest title drawn over YearAlphabet
MaxLen == 5
\* most words in a title built from Words
MaxWords == 3
\* most Sale Records drawn freely on top of the fixed ones
MaxFree == 2
\* most links returned by the Link Collector
MaxLinks == 2
\* most "date" elements on a listing page
MaxDates == 2

-----------------------------------------------------------------------------
(* Python values.  A cell holds a str, a number, NaN, or nothing yet; a    *)
(* call either returns such a value or raises.                             *)

NaN == [tag |-> "nan", s |-> <<>>, n |-> 0]
Str(x) == [tag |-> "str", s |-> x, n |-> 0]
Num(v) == [tag |-> "num", s |-> <<>>, n |-> v]
Unset == [tag |-> "unset", s |-> <<>>, n |-> 0]
Raise(e) == [tag |-> e, s |-> <<>>, n |-> 0]
Raised(v) == v.tag \in {"ValueError", "IndexError"}

Digits == {"0", "1", "2", "3", "4", "5", "6", "7", "8", "9"}

DigitValue(c) ==
    CASE c = "0" -> 0 [] c = "1" -> 1 [] c = "2" -> 2 [] c = "3" -> 3
      [] c = "4" -> 4 [] c = "5" -> 5 [] c = "6" -> 6 [] c = "7" -> 7
      [] c = "8" -> 8 [] c = "9" -> 9

\* the value of a run of decimal digits, most significant first
RECURSIVE DecValue(_)
DecValue(s) ==
    IF Len(s) = 0 THEN 0
    ELSE 10 * DecValue(SubSeq(s, 1, Len(s) - 1)) + DigitValue(s[Len(s)])

AllDigits(s) == \A i \in 1..Len(s) : s[i] \in Digits

\* `sub in s` on Python strings
Contains(s, sub) ==
    \E i \in 1..(Len(s) - Len(sub) + 1) : SubSeq(s, i, i + Len(sub) - 1) = sub

-----------------------------------------------------------------------------
(* Title parser: get_model_year.  Each of the seven regular expressions is *)
(* a fixed-length sequence of character classes.                           *)

D39 == {"3", "4", "5", "6", "7", "8", "9"}
D01 == {"0", "1"}

regex_one == << {"1"}, {"9"}, D39, Digits, {"s"} >>
regex_two == << {"1"}, {"9"}, D39, Digits >>
regex_three == << {"2"}, {"0"}, D01, {"0"}, {"s"} >>
regex_four == << {"2"}, {"0"}, D01, Digits >>
regex_five == << {"'"}, Digits, {"0"}, {"s"} >>
regex_six == << Digits, {"0"}, {"s"} >>
regex_seven == << {"'"}, Digits, Digits >>

MatchesAt(re, s, i) ==
    /\ i + Len(re) - 1 <= Len(s)
    /\ \A j \in 1..Len(re) : s[i + j - 1] \in re[j]

\* re.search(re, s): is there a match anywhere in s
re_search(re, s) == \E i \in 1..Len(s) : MatchesAt(re, s, i)

\* re.search(re, s).group(0): the text of the leftmost match
group0(re, s) ==
    LET m == CHOOSE i \in 1..Len(s) :
                 /\ MatchesAt(re, s, i)
                 /\ \A j \in 1..(i - 1) : ~MatchesAt(re, s, j)
    IN  SubSeq(s, m, m + Len(re) - 1)

get_model_year(r) ==
    IF re_search(regex_one, r.Name) THEN Str(group0(regex_one, r.Name))
    ELSE IF re_search(regex_two, r.Name) THEN Str(group0(regex_two, r.Name))
    ELSE IF re_search(regex_three, r.Name) THEN Str(group0(regex_three, r.Name))
    ELSE IF re_search(regex_four, r.Name) THEN Str(group0(regex_four, r.Name))
    ELSE IF re_search(regex_five, r.Name) THEN Str(group0(regex_five, r.Name))
    ELSE IF re_search(regex_six, r.Name) THEN Str(group0(regex_six, r.Name))
    ELSE IF re_search(regex_seven, r.Name) THEN Str(group0(regex_seven, r.Name))
    ELSE NaN

-----------------------------------------------------------------------------
(* Title parser: clean_model_year.                                         *)

\* int(s) for a raw match, which holds only digits, "s" and "'": the
\* literal is accepted exactly when every character is a digit
int(s) ==
    IF Len(s) > 0 /\ AllDigits(s) THEN Num(DecValue(s)) ELSE Raise("ValueError")

\* the plausible slip for clean_model_year: the decade keys written without
\* their "s", so that an exact year holding "00" or "10" is remapped
clean_model_year_keys_without_s(r) ==
    IF r.ModelYear.tag = "str"
    THEN IF Contains(r.ModelYear.s, <<"0", "0">>) THEN Num(2005)
         ELSE IF Contains(r.ModelYear.s, <<"1", "0">>) THEN Num(2015)
         ELSE IF Contains(r.ModelYear.s, <<"3", "0">>) THEN Num(1935)
         ELSE IF Contains(r.ModelYear.s, <<"5", "0">>) THEN Num(1955)
         ELSE IF Contains(r.ModelYear.s, <<"6", "0">>) THEN Num(1965)
         ELSE IF Contains(r.ModelYear.s, <<"'", "6", "9">>) THEN Num(1969)
         ELSE IF Contains(r.ModelYear.s, <<"7", "0">>) THEN Num(1975)
         ELSE IF Contains(r.ModelYear.s, <<"8", "0">>) THEN Num(1985)
         ELSE IF Contains(r.ModelYear.s, <<"9", "0">>) THEN Num(1995)
         ELSE int(r.ModelYear.s)
    ELSE r.ModelYear

clean_model_year(r) ==
    IF r.ModelYear.tag = "str"
    THEN IF Contains(r.ModelYear.s, <<"0", "0", "s">>) THEN Num(2005)
         ELSE IF Contains(r.ModelYear.s, <<"1", "0", "s">>) THEN Num(2015)
         ELSE IF Contains(r.ModelYear.s, <<"3", "0", "s">>) THEN Num(1935)
         ELSE IF Contains(r.ModelYear.s, <<"5", "0", "s">>) THEN Num(1955)
         ELSE IF Contains(r.ModelYear.s, <<"6", "0", "s">>) THEN Num(1965)
         ELSE IF Contains(r.ModelYear.s, <<"'", "6", "9">>) THEN Num(1969)
         ELSE IF Contains(r.ModelYear.s, <<"7", "0", "s">>) THEN Num(1975)
         ELSE IF Contains(r.ModelYear.s, <<"8", "0", "s">>) THEN Num(1985)
         ELSE IF Contains(r.ModelYear.s, <<"9", "0", "s">>) THEN Num(1995)
         ELSE int(r.ModelYear.s)
    ELSE r.ModelYear

-----------------------------------------------------------------------------
(* Title parser: get_model_color.                                          *)

colors ==
    << <<"B","u","r","s","t">>,
       <<"S","u","n","b","u","r","s","t">>,
       <<"F","i","r","e","b","u","r","s","t">>,
       <<"H","o","n","e","y","b","u","r","s","t">>,
       <<"B","l","u","e">>,
       <<"W","h","i","t","e">>,
       <<"B","l","a","c","k">>,
       <<"N","a","t","u","r","a","l">>,
       <<"B","l","o","n","d","e">>,
       <<"T","u","r","q","u","o","i","s","e">>,
       <<"R","e","d">>,
       <<"G","r","e","e","n">>,
       <<"G","o","l","d">>,
       <<"S","i","l","v","e","r">>,
       <<"P","i","n","k">>,
       <<"Y","e","l","l","o","w">>,
       <<"O","r","a","n","g","e">>,
       <<"C","h","e","r","r","y">>,
       <<"V","i","o","l","e","t">>,
       <<"E","b","o","n","y">>,
       <<"B","r","o","w","n">>,
       <<"M","a","h","o","g","a","n","y">>,
       <<"W","a","l","n","u","t">>,
       <<"I","v","o","r","y">> >>

\* str.lower() on the letters that occur in titles and colour names
LowerChar(c) ==
    CASE c = "B" -> "b" [] c = "S" -> "s" [] c = "F" -> "f" [] c = "H" -> "h"
      [] c = "W" -> "w" [] c = "N" -> "n" [] c = "T" -> "t" [] c = "R" -> "r"
      [] c = "G" -> "g" [] c = "P" -> "p" [] c = "Y" -> "y" [] c = "O" -> "o"
      [] c = "C" -> "c" [] c = "V" -> "v" [] c = "E" -> "e" [] c = "M" -> "m"
      [] c = "I" -> "i" [] c = "L" -> "l" [] c = "U" -> "u" [] c = "A" -> "a"
      [] OTHER -> c

Lower(s) == [i \in 1..Len(s) |-> LowerChar(s[i])]

\* the plausible slip for get_model_color: the substring test made
\* case-insensitive
get_model_color_ignoring_case(r) ==
    IF \E i \in 1..Len(colors) : Contains(Lower(r.Name), Lower(colors[i]))
    THEN LET first == CHOOSE i \in 1..Len(colors) :
                          /\ Contains(Lower(r.Name), Lower(colors[i]))
                          /\ \A j \in 1..(i - 1) :
                                 ~Contains(Lower(r.Name), Lower(colors[j]))
         IN  Str(colors[first])
    ELSE Str(<<"N", "A">>)

get_model_color(r) ==
    IF \E i \in 1..Len(colors) : Contains(r.Name, colors[i])
    THEN LET first == CHOOSE i \in 1..Len(colors) :
                          /\ Contains(r.Name, colors[i])
                          /\ \A j \in 1..(i - 1) : ~Contains(r.Name, colors[j])
         IN  Str(colors[first])
    ELSE Str(<<"N", "A">>)

-----------------------------------------------------------------------------
(* Titles handed to the title parser.                                      *)

YearAlphabet == {"0", "1", "2", "4", "5", "6", "9", "s", "'"}

YearTitles == UNION {[1..n -> YearAlphabet] : n \in 0..MaxLen}

Fender == <<"F","e","n","d","e","r">>
Telecaster == <<"T","e","l","e","c","a","s","t","e","r">>
Sunburst == <<"S","u","n","b","u","r","s","t">>
Burst == <<"B","u","r","s","t">>
LowerBurst == <<"b","u","r","s","t">>
UpperBlue == <<"B","L","U","E">>
Blue == <<"B","l","u","e">>
Fired == <<"F","i","r","e","d">>
Red == <<"R","e","d">>

Words ==
    {Fender, Telecaster, Sunburst, Burst, LowerBurst, UpperBlue, Blue, Fired,
     Red}

RECURSIVE JoinWords(_)
JoinWords(ws) ==
    IF Len(ws) = 0 THEN <<>>
    ELSE IF Len(ws) = 1 THEN ws[1]
    ELSE ws[1] \o <<" ">> \o JoinWords(Tail(ws))

WordTitles == {JoinWords(ws) : ws \in UNION {[1..n -> Words] : n \in 1..MaxWords}}

FenderStratocaster1965 ==
    <<"F","e","n","d","e","r"," ","S","t","r","a","t","o","c","a","s","t","e",
      "r"," ","1","9","6","5">>
GibsonLesPaul59 ==
    <<"G","i","b","s","o","n"," ","L","e","s"," ","P","a","u","l"," ","'","5",
      "9">>
FenderTelecasterSunburst == JoinWords(<<Fender, Telecaster, Sunburst>>)

ExampleTitles == {FenderStratocaster1965, GibsonLesPaul59}

Titles == YearTitles \cup WordTitles \cup ExampleTitles

-----------------------------------------------------------------------------
(* Idle values of the variables a specification does not use.              *)

TitleIdle == row = [Name |-> <<>>, ModelYear |-> Unset, ModelColor |-> Unset]
                 /\ tpc = "idle"

TransformIdle ==
    /\ loaded_dict = <<>>
    /\ df = <<>>
    /\ df_dummy = <<>>
    /\ df_pkl = [written |-> FALSE, content |-> <<>>]
    /\ df_dummy_pkl = [written |-> FALSE, content |-> <<>>]
    /\ mpc = "idle"

ScrapeIdle ==
    /\ electric_guitar_links = <<>>
    /\ links_pkl = [written |-> FALSE, content |-> <<>>]
    /\ electric_guitar_dict = <<>>
    /\ dict_pkl = [written |-> FALSE, content |-> <<>>]
    /\ k = 0
    /\ visited = <<>>
    /\ spc = "idle"

-----------------------------------------------------------------------------
(* SpecTitle: the three parser calls of transform.main, in its order, on   *)
(* one row.  An exception raised by a call ends the run.                   *)

TitleInit ==
    /\ \E t \in Titles :
           row = [Name |-> t, ModelYear |-> Unset, ModelColor |-> Unset]
    /\ tpc = "get_model_year"
    /\ TransformIdle
    /\ ScrapeIdle

RowGetModelYear ==
    /\ tpc = "get_model_year"
    /\ row' = [row EXCEPT !.ModelYear = get_model_year(row)]
    /\ tpc' = "clean_model_year"
    /\ UNCHANGED <<transformVars, scrapeVars>>

RowCleanModelYear ==
    /\ tpc = "clean_model_year"
    /\ LET y == clean_model_year(row)
       IN  IF Raised(y)
           THEN /\ tpc' = "error"
                /\ row' = row
           ELSE /\ tpc' = "get_model_color"
                /\ row' = [row EXCEPT !.ModelYear = y]
    /\ UNCHANGED <<transformVars, scrapeVars>>

RowGetModelColor ==
    /\ tpc = "get_model_color"
    /\ row' = [row EXCEPT !.ModelColor = get_model_color(row)]
    /\ tpc' = "done"
    /\ UNCHANGED <<transformVars, scrapeVars>>

TitleNext == RowGetModelYear \/ RowCleanModelYear \/ RowGetModelColor

SpecTitle == TitleInit /\ [][TitleNext]_vars

-----------------------------------------------------------------------------
(* Claims about the title parser, checked under SpecTitle.                 *)

YearCleaned == tpc \in {"get_model_color", "done", "error"}

\* C1: for every title, get_model_year followed by clean_model_year ends
\* normally and leaves an integer or "missing" in Model Year; no title makes
\* the normaliser fail.
C1_YearIsIntegerOrMissing ==
    /\ tpc # "error"
    /\ (tpc \in {"get_model_color", "done"} => row.ModelYear.tag \in {"num", "nan"})

\* the first pattern of the priority order that matches the title is
\* pattern 2 or pattern 4
FirstMatchIsExactYear(t) ==
    /\ ~re_search(regex_one, t)
    /\ \/ re_search(regex_two, t)
       \/ ~re_search(regex_three, t) /\ re_search(regex_four, t)

\* the four characters of t at i are digits whose value lies in lo..hi
YearAt(t, i, lo, hi) ==
    /\ i + 3 <= Len(t)
    /\ AllDigits(SubSeq(t, i, i + 3))
    /\ DecValue(SubSeq(t, i, i + 3)) \in lo..hi

HasYearIn(t, lo, hi) == \E i \in 1..Len(t) : YearAt(t, i, lo, hi)

LeftmostYearIn(t, lo, hi) ==
    LET m == CHOOSE i \in 1..Len(t) :
                 /\ YearAt(t, i, lo, hi)
                 /\ \A j \in 1..(i - 1) : ~YearAt(t, j, lo, hi)
    IN  DecValue(SubSeq(t, m, m + 3))

\* the leftmost year of 1930..1999 in t, or with none, of 2000..2019
ExactYearOf(t) ==
    IF HasYearIn(t, 1930, 1999) THEN LeftmostYearIn(t, 1930, 1999)
    ELSE LeftmostYearIn(t, 2000, 2019)

\* C2: when the first matching pattern is an exact four-digit year (pattern
\* 2 or 4), normalisation does not fail and Model Year is exactly that year:
\* no decade keyword remaps it.
C2_ExactYearKept ==
    (YearCleaned /\ FirstMatchIsExactYear(row.Name)) =>
        /\ tpc # "error"
        /\ row.ModelYear = Num(ExactYearOf(row.Name))

C2_Witness ==
    /\ tpc = "done"
    /\ row.Name = <<"2", "0", "0", "0">>
    /\ FirstMatchIsExactYear(row.Name)
    /\ row.ModelYear = Num(2000)

\* C3 as stated: for "Fender Telecaster Sunburst" get_model_color returns
\* "Burst".
C3_SunburstTitleGivesBurst ==
    (tpc = "done" /\ row.Name = FenderTelecasterSunburst) =>
        row.ModelColor = Str(Burst)

\* C3 amended: for "Fender Telecaster Sunburst" get_model_color returns
\* "Sunburst": "Burst" is tried first but, case-sensitively, is no substring
\* of the title.
C3_SunburstTitleGivesSunburst ==
    (tpc = "done" /\ row.Name = FenderTelecasterSunburst) =>
        /\ row.ModelColor = Str(Sunburst)
        /\ colors[1] = Burst
        /\ ~Contains(row.Name, Burst)

C3_Witness ==
    /\ tpc = "done"
    /\ row.Name = FenderTelecasterSunburst
    /\ row.ModelColor = Str(Sunburst)

-----------------------------------------------------------------------------
(* Transform stage: prices.                                                *)

\* s.replace(',', '')
RemoveCommas(s) == SelectSeq(s, LAMBDA c : c # ",")

\* s[1:]
DropFirst(s) == SubSeq(s, 2, Len(s))

\* the text is digits with at most one "." and at least one digit
IsDecimalNumber(t) ==
    /\ \A i \in 1..Len(t) : t[i] \in Digits \cup {"."}
    /\ Cardinality({i \in 1..Len(t) : t[i] = "."}) <= 1
    /\ \E i \in 1..Len(t) : t[i] \in Digits

\* float(t), the value held in hundredths.  The prices of the model carry at
\* most two decimals; exponent, sign, "inf", "nan", underscore and blank
\* forms, which float() also accepts, are not among them.
float(t) ==
    IF IsDecimalNumber(t)
    THEN LET dots == {i \in 1..Len(t) : t[i] = "."}
             dot == IF dots = {} THEN Len(t) + 1 ELSE CHOOSE i \in dots : TRUE
             whole == SubSeq(t, 1, dot - 1)
             frac == SubSeq(t \o <<"0", "0">>, dot + 1, dot + 2)
         IN  Num(100 * DecValue(whole)
                     + IF dots = {} THEN 0 ELSE DecValue(frac))
    ELSE Raise("ValueError")

FREE == <<"F", "R", "E", "E">>

\* the expression of main's list comprehension over df['Final']
final_price(r) == float(DropFirst(RemoveCommas(r.Final.s)))

\* the plausible slip for clean_asking_price: every text that does not
\* parse is taken as missing, not only "FREE"
clean_asking_price_lenient(r) ==
    IF Raised(float(DropFirst(RemoveCommas(r.Asking.s)))) THEN NaN
    ELSE float(DropFirst(RemoveCommas(r.Asking.s)))

clean_asking_price(r) ==
    IF r.Asking.s = FREE THEN NaN
    ELSE float(DropFirst(RemoveCommas(r.Asking.s)))

-----------------------------------------------------------------------------
(* Transform stage: to_df.                                                 *)

TopN == 20

Whitespace == {" "}

\* name.split()[0]
FirstToken(s) ==
    LET starts == {i \in 1..Len(s) : s[i] \notin Whitespace}
    IN  IF starts = {} THEN Raise("IndexError")
        ELSE LET a == CHOOSE i \in starts : \A j \in starts : i <= j
                 stops == {j \in a..Len(s) : s[j] \in Whitespace}
                 b == IF stops = {} THEN Len(s)
                      ELSE (CHOOSE j \in stops : \A l \in stops : j <= l) - 1
             IN  Str(SubSeq(s, a, b))

\* df['Brand'].value_counts(): brand -> number of rows
value_counts(d) ==
    LET brand == [i \in DOMAIN d |-> d[i].Brand]
    IN  [b \in {brand[i] : i \in DOMAIN d} |->
            Cardinality({i \in DOMAIN d : brand[i] = b})]

\* the subsets of S that hold n elements
RECURSIVE KSubsets(_, _)
KSubsets(S, n) ==
    IF n = 0 THEN {{}}
    ELSE IF Cardinality(S) < n THEN {}
    ELSE IF Cardinality(S) = n THEN {S}
    ELSE LET x == CHOOSE x \in S : TRUE
         IN  KSubsets(S \ {x}, n) \cup {K \cup {x} : K \in KSubsets(S \ {x}, n - 1)}

\* the plausible slip for the top-brand slice: [:21]
first_twenty_one(counts) ==
    LET B == DOMAIN counts
    IN  IF Cardinality(B) <= TopN + 1 THEN {B}
        ELSE LET c == CHOOSE c \in {counts[b] : b \in B} :
                          /\ Cardinality({b \in B : counts[b] > c}) < TopN + 1
                          /\ Cardinality({b \in B : counts[b] >= c}) >= TopN + 1
                 Sure == {b \in B : counts[b] > c}
                 Tied == {b \in B : counts[b] = c}
             IN  {Sure \cup K : K \in KSubsets(Tied, TopN + 1 - Cardinality(Sure))}

\* value_counts().index.tolist()[:20].  value_counts sorts by count,
\* descending, with an unstable sort: brands of equal count may come in any
\* order, so every choice among the brands tied at the cut is a result.
top_twenty_guitar_brands(counts) ==
    LET B == DOMAIN counts
    IN  IF Cardinality(B) <= TopN THEN {B}
        ELSE LET c == CHOOSE c \in {counts[b] : b \in B} :
                          /\ Cardinality({b \in B : counts[b] > c}) < TopN
                          /\ Cardinality({b \in B : counts[b] >= c}) >= TopN
                 Sure == {b \in B : counts[b] > c}
                 Tied == {b \in B : counts[b] = c}
             IN  {Sure \cup K : K \in KSubsets(Tied, TopN - Cardinality(Sure))}

\* the dataframe of to_df before the mask, for a dictionary whose names all
\* hold a token: the five columns, plus Brand
with_brand(d) ==
    [i \in 1..Len(d) |->
        [Final |-> Str(d[i].Final), Asking |-> Str(d[i].Asking),
         Name |-> d[i].Name, Date |-> d[i].Date, Condition |-> d[i].Condition,
         Brand |-> FirstToken(d[i].Name).s,
         ModelYear |-> Unset, ModelColor |-> Unset]]

\* df[mask]: the rows whose label is in keep, labels unchanged
Restrict(d, keep) == [i \in keep |-> d[i]]

-----------------------------------------------------------------------------
(* Transform stage: df_format.                                             *)

\* np.isfinite on a cell holding a number or NaN
isfinite(v) == v.tag = "num"

OneHot(col) ==
    LET values == {col[j] : j \in DOMAIN col}
    IN  [i \in DOMAIN col |-> [c \in values |-> IF col[i] = c THEN 1 ELSE 0]]

\* pd.concat of the numeric subset and the three pd.get_dummies frames
concat_dummies(d) ==
    LET dummy_brand == OneHot([i \in DOMAIN d |-> d[i].Brand])
        dummy_condition == OneHot([i \in DOMAIN d |-> d[i].Condition])
        dummy_color == OneHot([i \in DOMAIN d |-> d[i].ModelColor.s])
    IN  [i \in DOMAIN d |->
            [Final |-> d[i].Final, Asking |-> d[i].Asking,
             ModelYear |-> d[i].ModelYear, Brand |-> dummy_brand[i],
             Condition |-> dummy_condition[i], ModelColor |-> dummy_color[i]]]

\* the plausible slip for df_format: the price range taken inclusive
df_format_inclusive(d) ==
    LET d1 == Restrict(d, {i \in DOMAIN d : isfinite(d[i].ModelYear)})
        d2 == Restrict(d1, {i \in DOMAIN d1 : isfinite(d1[i].Asking)})
        d3 == Restrict(d2, {i \in DOMAIN d2 : d2[i].Final.n >= 30 * 100})
        d4 == Restrict(d3, {i \in DOMAIN d3 : d3[i].Final.n <= 40000 * 100})
    IN  concat_dummies(d4)

df_format(d) ==
    LET d1 == Restrict(d, {i \in DOMAIN d : isfinite(d[i].ModelYear)})
        d2 == Restrict(d1, {i \in DOMAIN d1 : isfinite(d1[i].Asking)})
        d3 == Restrict(d2, {i \in DOMAIN d2 : d2[i].Final.n > 30 * 100})
        d4 == Restrict(d3, {i \in DOMAIN d3 : d3[i].Final.n < 40000 * 100})
    IN  concat_dummies(d4)

-----------------------------------------------------------------------------
(* Sale Records handed to the transform stage: a fixed part, nineteen      *)
(* brands with two sales each and a twentieth with one, followed by up to  *)
(* MaxFree records drawn from FreeRecords.                                 *)

SaleRecord(name, condition, asking, final) ==
    [Name |-> name, Date |-> "3/1/2018", Condition |-> condition,
     Asking |-> asking, Final |-> final]

FixedBrands ==
    <<"A", "B", "C", "D", "E", "F", "G", "H", "I", "J", "K", "L", "M", "N",
      "O", "P", "Q", "R", "S">>

FixedRecords ==
    [i \in 1..(2 * Len(FixedBrands) + 1) |->
        SaleRecord(<<IF i <= 2 * Len(FixedBrands)
                     THEN FixedBrands[(i + 1) \div 2] ELSE "T">>
                       \o <<" ", "1", "9", "6", "5">>,
                   "Mint", <<"$", "9", "9">>, <<"$", "9", "0">>)]

\* title after the brand, asking price, final price
GoodForm ==
    << <<" ", "1", "9", "5", "0", "s", " ", "R", "e", "d">>,
       <<"$","1",",","3","0","0">>, <<"$","3","0",".","5","0">> >>
LowFinalForm == << <<" ", "1", "9", "6", "5">>, <<"$","9","9">>, <<"$","2","5">> >>
FreeFinalForm == << <<" ", "1", "9", "6", "5">>, <<"$","9","9">>, FREE >>

FreeForms ==
    { GoodForm, LowFinalForm, FreeFinalForm,
      << <<" ", "1", "9", "6", "5">>, <<"$","9","9">>, <<"$","3","0">> >>,
      << <<" ", "1", "9", "6", "5">>, <<"$","9","9">>,
         <<"$","4","0",",","0","0","0">> >>,
      << <<>>, <<"$","9","9">>, <<"$","1",",","2","5","0">> >>,
      << <<" ", "1", "9", "6", "5">>, FREE, <<"$","1",",","2","5","0">> >>,
      << <<" ", "1", "9", "6", "5">>, <<"N","/","A">>, <<"$","9","9">> >>,
      << <<" ", "1", "9", "6", "5">>, <<"$","9","9">>, <<"1","2","5","0">> >>,
      << <<" ", "'", "5", "9">>, <<"$","9","9">>, <<"$","9","0">> >> }

\* further sales of the twentieth brand in every form, and sales of a
\* twenty-first brand in three of them
FreeRecords ==
    {SaleRecord(<<"T">> \o f[1], "Good", f[2], f[3]) : f \in FreeForms}
        \cup {SaleRecord(<<"U">> \o f[1], "Good", f[2], f[3]) :
                 f \in {GoodForm, LowFinalForm, FreeFinalForm}}

InputDicts ==
    {FixedRecords \o free :
        free \in UNION {[1..n -> FreeRecords] : n \in 0..MaxFree}}

-----------------------------------------------------------------------------
(* SpecTransform: transform.main.  Each column operation is one step; an   *)
(* exception raised for any row ends the run with nothing more done.       *)

NoFile == [written |-> FALSE, content |-> <<>>]
File(c) == [written |-> TRUE, content |-> c]

TransformInit ==
    /\ loaded_dict \in InputDicts
    /\ df = <<>>
    /\ df_dummy = <<>>
    /\ df_pkl = NoFile
    /\ df_dummy_pkl = NoFile
    /\ mpc = "to_df"
    /\ TitleIdle
    /\ ScrapeIdle

Fatal ==
    /\ mpc' = "error"
    /\ UNCHANGED <<df, df_dummy>>

ToDf ==
    /\ mpc = "to_df"
    /\ IF \E i \in 1..Len(loaded_dict) : Raised(FirstToken(loaded_dict[i].Name))
       THEN Fatal
       ELSE LET all == with_brand(loaded_dict)
                tops == top_twenty_guitar_brands(value_counts(all))
            IN  /\ \E top \in tops :
                       df' = Restrict(all, {i \in DOMAIN all : all[i].Brand \in top})
                /\ mpc' = "get_model_year"
                /\ UNCHANGED df_dummy
    /\ UNCHANGED <<loaded_dict, df_pkl, df_dummy_pkl, titleVars, scrapeVars>>

ApplyGetModelYear ==
    /\ mpc = "get_model_year"
    /\ df' = [i \in DOMAIN df |-> [df[i] EXCEPT !.ModelYear = get_model_year(df[i])]]
    /\ mpc' = "clean_model_year"
    /\ UNCHANGED <<loaded_dict, df_dummy, df_pkl, df_dummy_pkl, titleVars, scrapeVars>>

ApplyCleanModelYear ==
    /\ mpc = "clean_model_year"
    /\ IF \E i \in DOMAIN df : Raised(clean_model_year(df[i]))
       THEN Fatal
       ELSE /\ df' = [i \in DOMAIN df |->
                         [df[i] EXCEPT !.ModelYear = clean_model_year(df[i])]]
            /\ mpc' = "get_model_color"
            /\ UNCHANGED df_dummy
    /\ UNCHANGED <<loaded_dict, df_pkl, df_dummy_pkl, titleVars, scrapeVars>>

ApplyGetModelColor ==
    /\ mpc = "get_model_color"
    /\ df' = [i \in DOMAIN df |-> [df[i] EXCEPT !.ModelColor = get_model_color(df[i])]]
    /\ mpc' = "final"
    /\ UNCHANGED <<loaded_dict, df_dummy, df_pkl, df_dummy_pkl, titleVars, scrapeVars>>

FormatFinal ==
    /\ mpc = "final"
    /\ IF \E i \in DOMAIN df : Raised(final_price(df[i]))
       THEN Fatal
       ELSE /\ df' = [i \in DOMAIN df |-> [df[i] EXCEPT !.Final = final_price(df[i])]]
            /\ mpc' = "asking"
            /\ UNCHANGED df_dummy
    /\ UNCHANGED <<loaded_dict, df_pkl, df_dummy_pkl, titleVars, scrapeVars>>

ApplyCleanAskingPrice ==
    /\ mpc = "asking"
    /\ IF \E i \in DOMAIN df : Raised(clean_asking_price(df[i]))
       THEN Fatal
       ELSE /\ df' = [i \in DOMAIN df |->
                         [df[i] EXCEPT !.Asking = clean_asking_price(df[i])]]
            /\ mpc' = "df_format"
            /\ UNCHANGED df_dummy
    /\ UNCHANGED <<loaded_dict, df_pkl, df_dummy_pkl, titleVars, scrapeVars>>

\* the plausible slip for the call of df_format: the filtered rows written
\* back to main's df
DfFormatInPlace ==
    /\ mpc = "df_format"
    /\ df_dummy' = df_format(df)
    /\ df' = Restrict(df, DOMAIN df_format(df))
    /\ mpc' = "dump_df"
    /\ UNCHANGED <<loaded_dict, df_pkl, df_dummy_pkl, titleVars, scrapeVars>>

\* df_dummy = df_format(df): df_format rebinds its own parameter only
DfFormat ==
    /\ mpc = "df_format"
    /\ df_dummy' = df_format(df)
    /\ mpc' = "dump_df"
    /\ UNCHANGED <<loaded_dict, df, df_pkl, df_dummy_pkl, titleVars, scrapeVars>>

DumpDf ==
    /\ mpc = "dump_df"
    /\ df_pkl' = File(df)
    /\ mpc' = "dump_df_dummy"
    /\ UNCHANGED <<loaded_dict, df, df_dummy, df_dummy_pkl, titleVars, scrapeVars>>

DumpDfDummy ==
    /\ mpc = "dump_df_dummy"
    /\ df_dummy_pkl' = File(df_dummy)
    /\ mpc' = "done"
    /\ UNCHANGED <<loaded_dict, df, df_dummy, df_pkl, titleVars, scrapeVars>>

TransformNext ==
    \/ ToDf
    \/ ApplyGetModelYear
    \/ ApplyCleanModelYear
    \/ ApplyGetModelColor
    \/ FormatFinal
    \/ ApplyCleanAskingPrice
    \/ DfFormat
    \/ DumpDf
    \/ DumpDfDummy

SpecTransform == TransformInit /\ [][TransformNext]_vars

-----------------------------------------------------------------------------
(* Claims about the Dataset Builder, checked under SpecTransform.          *)

Formatted == mpc \in {"dump_df", "dump_df_dummy", "done"}

\* every feature row is a row of the full table with the same numbers, and
\* no row of the full table with Final <= 30 or Final >= 40000 is a feature
\* row
FeatureRowsFrom(full, feat) ==
    /\ DOMAIN feat \subseteq DOMAIN full
    /\ \A i \in DOMAIN feat :
           /\ feat[i].Final = full[i].Final
           /\ feat[i].Asking = full[i].Asking
           /\ feat[i].ModelYear = full[i].ModelYear
    /\ \A i \in DOMAIN full :
           (full[i].Final.n <= 30 * 100 \/ full[i].Final.n >= 40000 * 100) =>
               i \notin DOMAIN feat

RECURSIVE FirstTokens(_)
FirstTokens(d) ==
    IF Len(d) = 0 THEN <<>>
    ELSE Append(FirstTokens(SubSeq(d, 1, Len(d) - 1)), FirstToken(d[Len(d)].Name).s)

InputBrands == {FirstTokens(loaded_dict)[i] : i \in 1..Len(loaded_dict)}

FullTableBrands(full) == {full[i].Brand : i \in DOMAIN full}
FeatureTableBrands(feat) == UNION {DOMAIN feat[i].Brand : i \in DOMAIN feat}

\* the brands of the full table are a choice of the 20 most frequent brands
\* of the input, each row carries the first token of its Name, and the
\* feature table has rows and one-hot columns of those brands only
BrandsKept(full, feat) ==
    LET brand == FirstTokens(loaded_dict)
        input == {brand[i] : i \in 1..Len(brand)}
        kept == FullTableBrands(full)
        Count(b) == Cardinality({i \in 1..Len(brand) : brand[i] = b})
    IN  /\ kept \subseteq input
        /\ Cardinality(kept) <= 20
        /\ \A c \in input \ kept : \A b \in kept : Count(b) >= Count(c)
        /\ \A i \in DOMAIN full : full[i].Brand = brand[i]
        /\ FeatureTableBrands(feat) \subseteq kept
        /\ \A i \in DOMAIN feat : feat[i].Brand[brand[i]] = 1

\* C5: every row of both output tables has a Brand, the first token of its
\* Name, among the 20 most frequent brands of the input; a brand outside
\* them gives no row and no one-hot column, and at most 20 brands appear.
C5_OnlyTopTwentyBrands ==
    /\ mpc \notin {"idle", "to_df"} => BrandsKept(df, df_dummy)
    /\ (df_pkl.written /\ df_dummy_pkl.written) =>
           BrandsKept(df_pkl.content, df_dummy_pkl.content)

C5_Witness ==
    /\ mpc = "done"
    /\ Cardinality(InputBrands) > 20
    /\ Cardinality(FullTableBrands(df_pkl.content)) = 20
    /\ \E b \in InputBrands :
           /\ b \notin FullTableBrands(df_pkl.content)
           /\ b \notin FeatureTableBrands(df_dummy_pkl.content)
    /\ DOMAIN df_dummy_pkl.content # {}

\* the tables the brand filter of to_df can give for an already built table
ReappliedBrandFilter(full) ==
    {Restrict(full, {i \in DOMAIN full : full[i].Brand \in top}) :
        top \in top_twenty_guitar_brands(value_counts(full))}

PriceWellFormed(s) ==
    /\ Len(s) >= 2
    /\ s[1] = "$"
    /\ IsDecimalNumber(RemoveCommas(DropFirst(s)))

Malformed(rec) ==
    \/ ~PriceWellFormed(rec.Final)
    \/ rec.Asking # FREE /\ ~PriceWellFormed(rec.Asking)

\* C8 as stated: a malformed price string in any Sale Record of the input
\* makes the transform stage end in a fatal error with neither table
\* persisted.
C8_AnyMalformedPriceIsFatal ==
    (\E i \in 1..Len(loaded_dict) : Malformed(loaded_dict[i])) =>
        /\ ~df_pkl.written
        /\ ~df_dummy_pkl.written
        /\ mpc # "done"

\* float() rejects what is left of the price text once its commas and its
\* first character are removed
Unparsable(s) == Raised(float(DropFirst(RemoveCommas(s))))

UnparsablePriceSurvives ==
    /\ mpc \notin {"idle", "to_df"}
    /\ \E i \in DOMAIN df :
           \/ Unparsable(loaded_dict[i].Final)
           \/ loaded_dict[i].Asking # FREE /\ Unparsable(loaded_dict[i].Asking)

\* C8 amended: when a Sale Record that survives the brand filter has a Final,
\* or an Asking other than "FREE", that float() rejects once commas and the
\* first character are removed, the stage never gets past the price
\* conversions and persists neither table; an Asking of "FREE" is no error
\* and becomes missing.
C8_UnparsableSurvivingPriceIsFatal ==
    /\ UnparsablePriceSurvives =>
           /\ ~df_pkl.written
           /\ ~df_dummy_pkl.written
           /\ ~Formatted
           /\ mpc # "df_format"
    /\ (Formatted \/ mpc = "df_format") =>
           \A i \in DOMAIN df :
               loaded_dict[i].Asking = FREE => df[i].Asking = NaN

C8_Witness ==
    /\ mpc = "error"
    /\ \E i \in DOMAIN df :
           /\ df[i].ModelColor.tag = "str"
           /\ df[i].Final.tag = "num"
           /\ Unparsable(loaded_dict[i].Asking)
           /\ loaded_dict[i].Asking # FREE
    /\ \E i \in DOMAIN df : loaded_dict[i].Asking = FREE
    /\ ~df_pkl.written
    /\ ~df_dummy_pkl.written

-----------------------------------------------------------------------------
(* Scrape stage.  The website is the environment: what get_site_links      *)
(* collects, whether a call of the driver raises, whether the wait for the *)
(* "date" marker times out, and how many elements of each class a listing  *)
(* page holds are chosen freely.                                           *)

Links == {"/guide/a", "/guide/b"}

LinkLists == UNION {[1..n -> Links] : n \in 0..MaxLinks}

\* the numbers of "date", "condition" and "price-history-table-price"
\* elements of a page on which the marker was found: consistent pages
\* (conditions = dates, prices = 2 * (dates - 1)) and pages one element off
Pages ==
    {pg \in [dates : 1..MaxDates, conditions : 0..(MaxDates + 1),
             prices : 0..(2 * MaxDates - 1)] :
        /\ pg.conditions \in (pg.dates - 1)..(pg.dates + 1)
        /\ pg.prices \in (2 * (pg.dates - 1) - 1)..(2 * (pg.dates - 1) + 1)}

\* the text of the element of class cls at position at (from 1) of the page
\* reached by the visit-th driver.get of the loop
Text(visit, cls, at) == [visit |-> visit, cls |-> cls, at |-> at]

data_header == {"Name", "Date", "Condition", "Asking", "Final"}

\* the four append loops of get_data for one page
Extend(d, visit, pg) ==
    [Name |-> d.Name \o [i \in 1..(pg.dates - 1) |-> Text(visit, "heading-1", 1)],
     Date |-> d.Date \o [i \in 1..(pg.dates - 1) |-> Text(visit, "date", i + 1)],
     Condition |-> d.Condition \o
         [i \in 1..(pg.conditions - 1) |-> Text(visit, "condition", i + 1)],
     Asking |-> d.Asking \o
         [i \in 1..((pg.prices + 1) \div 2) |-> Text(visit, "price", 2 * i - 1)],
     Final |-> d.Final \o
         [i \in 1..(pg.prices \div 2) |-> Text(visit, "price", 2 * i)]]

Visit(outcome) == [index |-> k, link |-> electric_guitar_links[k], outcome |-> outcome]

ScrapeInit ==
    /\ electric_guitar_links = <<>>
    /\ links_pkl = NoFile
    /\ electric_guitar_dict = <<>>
    /\ dict_pkl = NoFile
    /\ k = 0
    /\ visited = <<>>
    /\ spc = "get_site_links"
    /\ TitleIdle
    /\ TransformIdle

\* electric_guitar_links = get_site_links(): a list, duplicates possible, or
\* an exception of the driver (no "Next" control, no login form)
GetSiteLinks ==
    /\ spc = "get_site_links"
    /\ \/ /\ electric_guitar_links' \in LinkLists
          /\ spc' = "dump_links"
       \/ /\ spc' = "crashed"
          /\ UNCHANGED electric_guitar_links
    /\ UNCHANGED <<links_pkl, electric_guitar_dict, dict_pkl, k, visited,
                   titleVars, transformVars>>

\* the plausible slip for the first pickle.dump: the links not written
\* before get_data is called
DumpLinksDeferred ==
    /\ spc = "dump_links"
    /\ spc' = "login"
    /\ UNCHANGED <<electric_guitar_links, links_pkl, electric_guitar_dict,
                   dict_pkl, k, visited, titleVars, transformVars>>

DumpLinks ==
    /\ spc = "dump_links"
    /\ links_pkl' = File(electric_guitar_links)
    /\ spc' = "login"
    /\ UNCHANGED <<electric_guitar_links, electric_guitar_dict, dict_pkl, k,
                   visited, titleVars, transformVars>>

\* get_data up to its loop: the empty columns, the browser, the login form.
\* A timeout of the wait for the avatar is caught; a missing form raises.
Login ==
    /\ spc = "login"
    /\ \/ /\ electric_guitar_dict' = [key \in data_header |-> <<>>]
          /\ k' = 1
          /\ spc' = "loop"
       \/ /\ spc' = "crashed"
          /\ UNCHANGED <<electric_guitar_dict, k>>
    /\ UNCHANGED <<electric_guitar_links, links_pkl, dict_pkl, visited,
                   titleVars, transformVars>>

\* the plausible slip for the handler of the timeout: break
OnTimeoutBreak ==
    /\ visited' = Append(visited, Visit("timeout"))
    /\ k' = Len(electric_guitar_links) + 1
    /\ UNCHANGED <<electric_guitar_dict, spc>>

\* except TimeoutException: continue
OnTimeout ==
    /\ visited' = Append(visited, Visit("timeout"))
    /\ k' = k + 1
    /\ UNCHANGED <<electric_guitar_dict, spc>>

\* one pass of the for loop over the links
VisitLink ==
    /\ spc = "loop"
    /\ k <= Len(electric_guitar_links)
    /\ \/ OnTimeout
       \/ \E pg \in Pages :
              /\ visited' = Append(visited, Visit("read"))
              /\ electric_guitar_dict' = Extend(electric_guitar_dict, k, pg)
              /\ k' = k + 1
              /\ UNCHANGED spc
       \/ /\ visited' = Append(visited, Visit("raised"))
          /\ spc' = "crashed"
          /\ UNCHANGED <<electric_guitar_dict, k>>
    /\ UNCHANGED <<electric_guitar_links, links_pkl, dict_pkl, titleVars,
                   transformVars>>

\* get_data returns after the last link and main pickles the dictionary
DumpDict ==
    /\ spc = "loop"
    /\ k > Len(electric_guitar_links)
    /\ dict_pkl' = File(electric_guitar_dict)
    /\ spc' = "done"
    /\ UNCHANGED <<electric_guitar_links, links_pkl, electric_guitar_dict, k,
                   visited, titleVars, transformVars>>

ScrapeNext == GetSiteLinks \/ DumpLinks \/ Login \/ VisitLink \/ DumpDict

SpecScrape == ScrapeInit /\ [][ScrapeNext]_vars

-----------------------------------------------------------------------------
(* Claims about the scrape stage, checked under SpecScrape.                *)

\* C7: the link list is persisted before the first listing is visited, the
\* Sale Records are persisted only after the last link has been processed,
\* and a failure while a link is processed leaves the link list persisted
\* and no Sale Record blob.
C7_LinksFirstRecordsLast ==
    /\ visited # <<>> => links_pkl = File(electric_guitar_links)
    /\ dict_pkl.written =>
           /\ spc = "done"
           /\ Len(visited) = Len(electric_guitar_links)
           /\ \A i \in 1..Len(visited) : visited[i].outcome # "raised"
           /\ dict_pkl.content = electric_guitar_dict
    /\ (spc = "crashed" /\ visited # <<>>) =>
           /\ links_pkl.written
           /\ ~dict_pkl.written

C7_Witness ==
    /\ spc = "crashed"
    /\ Len(visited) = 2
    /\ visited[1].outcome = "read"
    /\ Len(electric_guitar_dict.Name) > 0
    /\ links_pkl = File(electric_guitar_links)
    /\ ~dict_pkl.written

\* the step is a pass of the loop whose wait for the marker timed out
TimedOutStep ==
    /\ Len(visited') = Len(visited) + 1
    /\ visited'[Len(visited')].outcome = "timeout"

\* C9: a timeout of the wait for the "date" marker leaves the five columns
\* unchanged, is not fatal and moves the loop to the next link; the links are
\* visited once each, in order, however many were skipped before.
C9_TimeoutSkipsOnlyThatLink ==
    /\ [][TimedOutStep =>
              /\ electric_guitar_dict' = electric_guitar_dict
              /\ spc' = "loop"
              /\ k' = k + 1]_vars
    /\ [](\A i \in 1..Len(visited) :
              /\ visited[i].index = i
              /\ visited[i].link = electric_guitar_links[i])
    /\ [](spc = "loop" => Len(visited) = k - 1)
    /\ [](spc = "done" => Len(visited) = Len(electric_guitar_links))

C9_Witness ==
    /\ spc = "done"
    /\ Len(visited) = 2
    /\ visited[1].outcome = "timeout"
    /\ visited[2].outcome = "read"
    /\ Len(electric_guitar_dict.Name) > 0

\* row i of the columns is one sale entry of one listing: entry e of a page
\* has its date and condition at position e + 1 and its asking and final
\* price at positions 2e - 1 and 2e
RowFromOneSale(d, i) ==
    LET v == d.Date[i].visit
        e == d.Date[i].at - 1
    IN  /\ d.Name[i] = Text(v, "heading-1", 1)
        /\ d.Condition[i] = Text(v, "condition", e + 1)
        /\ d.Asking[i] = Text(v, "price", 2 * e - 1)
        /\ d.Final[i] = Text(v, "price", 2 * e)

\* C10: a listing with N date elements adds N - 1 entries to each of the
\* five columns, so the columns keep equal length and each row holds the
\* name, date, condition, asking and final price of one sale entry.
C10_ColumnsStayAligned ==
    spc \in {"loop", "done"} =>
        /\ \A key \in data_header :
               Len(electric_guitar_dict[key]) = Len(electric_guitar_dict.Date)
        /\ \A i \in 1..Len(electric_guitar_dict.Date) :
               RowFromOneSale(electric_guitar_dict, i)

=============================================================================
